---- MODULE Spec2Model ----
(***************************************************************************)
(* Model of mp4_to_gb.py: the RGBDS syntax patcher of video.asm            *)
(* (GameBoyVideoConverter.patch_rgbds_syntax), the dependency probe        *)
(* (check_dependencies) and the conversion pipeline of main().             *)
(*                                                                         *)
(* Text is modelled at character level: a string is a sequence of          *)
(* one-character strings, a file is either NoFile or the sequence of the   *)
(* characters stored on disk.                                              *)
(***************************************************************************)
EXTENDS Integers, Sequences, FiniteSets, TLC

\* ------------------------------------------------------------------------
\* Bounds of the model
\* ------------------------------------------------------------------------
\* largest number of lines of an assembly source drawn as input
MaxLines == 2
\* largest number of successive patch_rgbds_syntax calls on one repository
MaxPatchRuns == 2

\* largest numerator and denominator of an --fps-multiplier value
MaxTerm == 3

\* ------------------------------------------------------------------------
\* Characters and Python string primitives
\* ------------------------------------------------------------------------
LF == "\n"
CR == "\r"

Upper ==
  {"A","B","C","D","E","F","G","H","I","J","K","L","M",
   "N","O","P","Q","R","S","T","U","V","W","X","Y","Z"}

Lower ==
  {"a","b","c","d","e","f","g","h","i","j","k","l","m",
   "n","o","p","q","r","s","t","u","v","w","x","y","z"}

Digit == {"0","1","2","3","4","5","6","7","8","9"}

\* characters matched by \s and removed by str.strip()
Whitespace == {" ", "\t", "\n", "\r", "\f"}

\* [A-Za-z_]
IdentStart == Upper \cup Lower \cup {"_"}

\* [A-Za-z0-9_]
IdentChar == IdentStart \cup Digit

\* s[i:] of Python, with i counted from 1
From(s, i) == SubSeq(s, i, Len(s))

\* sub in s
Contains(s, sub) ==
  \E i \in 1..(Len(s) - Len(sub) + 1) : SubSeq(s, i, i + Len(sub) - 1) = sub

\* s.startswith(p)
StartsWith(s, p) == Len(s) >= Len(p) /\ SubSeq(s, 1, Len(p)) = p

\* number of leading characters of s that belong to cls
RECURSIVE Span(_, _)
Span(s, cls) ==
  IF s # <<>> /\ Head(s) \in cls THEN 1 + Span(Tail(s), cls) ELSE 0

\* number of trailing characters of s that belong to cls
RECURSIVE SpanEnd(_, _)
SpanEnd(s, cls) ==
  IF s # <<>> /\ s[Len(s)] \in cls
  THEN 1 + SpanEnd(SubSeq(s, 1, Len(s) - 1), cls) ELSE 0

\* s.strip()
Strip(s) ==
  LET a == Span(s, Whitespace)
      t == From(s, a + 1)
  IN SubSeq(t, 1, Len(t) - SpanEnd(t, Whitespace))

\* s.find(c) + 1: position of the first c in s, 0 when there is none
RECURSIVE Find(_, _)
Find(s, c) ==
  IF s = <<>> THEN 0
  ELSE IF Head(s) = c THEN 1
  ELSE LET r == Find(Tail(s), c) IN IF r = 0 THEN 0 ELSE r + 1

\* content.split('\n')
RECURSIVE Split(_)
Split(s) ==
  LET n == Find(s, LF)
  IN IF n = 0 THEN <<s>>
     ELSE <<SubSeq(s, 1, n - 1)>> \o Split(From(s, n + 1))

\* '\n'.join(lines)
RECURSIVE Join(_)
Join(lines) ==
  IF lines = <<>> THEN <<>>
  ELSE IF Len(lines) = 1 THEN lines[1]
  ELSE lines[1] \o <<LF>> \o Join(Tail(lines))

\* ------------------------------------------------------------------------
\* Text-mode file I/O (open(path, 'r') / open(path, 'w'), newline=None)
\* ------------------------------------------------------------------------
\* f.read(): universal newlines, "\r\n" and a lone "\r" are read as "\n"
RECURSIVE DecodeText(_)
DecodeText(b) ==
  IF b = <<>> THEN <<>>
  ELSE IF Head(b) = CR
       THEN <<LF>> \o DecodeText(IF Len(b) > 1 /\ b[2] = LF
                                 THEN From(b, 3) ELSE Tail(b))
       ELSE <<Head(b)>> \o DecodeText(Tail(b))

\* f.write(text): every "\n" is written as os.linesep
RECURSIVE EncodeText(_, _)
EncodeText(t, linesep) ==
  IF t = <<>> THEN <<>>
  ELSE (IF Head(t) = LF THEN linesep ELSE <<Head(t)>>)
       \o EncodeText(Tail(t), linesep)

\* ------------------------------------------------------------------------
\* patch_rgbds_syntax: the text rules
\* ------------------------------------------------------------------------
DEF_SP == <<"D","E","F"," ">>
EQU == <<"E","Q","U">>
INCLUDE == <<"I","N","C","L","U","D","E">>
SECTION == <<"S","E","C","T","I","O","N">>
EXPORT == <<"E","X","P","O","R","T">>
PULLDOWN_SKIPF == <<"P","U","L","L","D","O","W","N","_","S","K","I","P","F">>

\* the marker searched by re.search(r'DEF PULLDOWN_SKIPF EQU', content)
PatchedMarker == DEF_SP \o PULLDOWN_SKIPF \o <<" ">> \o EQU

\* AlreadyPatched with re.match in place of re.search
AlreadyPatched_Match(content) == StartsWith(content, PatchedMarker)

\* re.search(r'DEF PULLDOWN_SKIPF EQU', content) is not None
AlreadyPatched(content) == Contains(content, PatchedMarker)

\* SkipLine without the test for INCLUDE
SkipLine_NoInclude(line) ==
  \/ StartsWith(Strip(line), <<";">>)
  \/ Contains(line, DEF_SP)
  \/ Strip(line) = <<>>
  \/ Contains(line, SECTION)
  \/ Contains(line, EXPORT)

\* the condition of the first if of the loop: the line is kept as it is
SkipLine(line) ==
  \/ StartsWith(Strip(line), <<";">>)
  \/ Contains(line, DEF_SP)
  \/ Strip(line) = <<>>
  \/ Contains(line, INCLUDE)
  \/ Contains(line, SECTION)
  \/ Contains(line, EXPORT)

\* re.match(r'^(\s*)([A-Za-z_][A-Za-z0-9_]*)(\s+EQU\s+.*)$', line):
\* <<>> for None, else match.groups() = <<indent, symbol, rest>>.
\* The line holds no "\n" (it comes from split), so .* runs to its end.
ReMatch(line) ==
  LET i == Span(line, Whitespace)
      afterIndent == From(line, i + 1)
      n == IF afterIndent # <<>> /\ Head(afterIndent) \in IdentStart
           THEN Span(afterIndent, IdentChar) ELSE 0
      rest == From(afterIndent, n + 1)
      w == Span(rest, Whitespace)
      afterWs == From(rest, w + 1)
  IN IF /\ n > 0
        /\ w > 0
        /\ StartsWith(afterWs, EQU)
        /\ Span(From(afterWs, 4), Whitespace) > 0
     THEN <<SubSeq(line, 1, i), SubSeq(afterIndent, 1, n), rest>>
     ELSE <<>>

\* FixLine that loses the indent of a rewritten line
FixLine_DropIndent(line) ==
  IF SkipLine(line) THEN line
  ELSE LET m == ReMatch(line)
       IN IF m # <<>> THEN DEF_SP \o m[2] \o m[3] ELSE line

\* one iteration of the loop: the line appended to fixed_lines
FixLine(line) ==
  IF SkipLine(line) THEN line
  ELSE LET m == ReMatch(line)
       IN IF m # <<>> THEN m[1] \o DEF_SP \o m[2] \o m[3] ELSE line

\* the loop over lines
RECURSIVE FixedLines(_)
FixedLines(lines) ==
  IF lines = <<>> THEN <<>>
  ELSE <<FixLine(Head(lines))>> \o FixedLines(Tail(lines))

\* PatchText ending the text with one more "\n"
PatchText_TrailingNewline(content) ==
  Join(FixedLines(Split(content))) \o <<LF>>

\* the text written back: '\n'.join(fixed_lines) of content.split('\n')
PatchText(content) == Join(FixedLines(Split(content)))

\* ------------------------------------------------------------------------
\* Files and inputs
\* ------------------------------------------------------------------------
\* Path.exists() is false for a file holding this value
NoFile == <<"ENOENT">>

\* line terminators found in a source file / values of os.linesep
Eols == {<<LF>>, <<CR, LF>>}

\* lines an assembly source is drawn from
LinePool ==
  LET sp == <<" ">>
      tab == <<"\t">>
      X == <<"X">>
      five == <<"5">>
  IN { X \o sp \o EQU \o sp \o five,
       <<" ", " ", "M","Y","C","O","N","S","T">> \o sp \o EQU \o sp \o five,
       PULLDOWN_SKIPF \o sp \o EQU \o sp \o five,
       tab \o PULLDOWN_SKIPF \o tab \o EQU \o tab \o five,
       DEF_SP \o PULLDOWN_SKIPF \o sp \o EQU \o sp \o five,
       DEF_SP \o <<"Y">> \o sp \o EQU \o sp \o five,
       sp \o <<";">> \o sp \o X \o sp \o EQU \o sp \o five,
       <<>>,
       sp \o tab,
       INCLUDE \o <<"_">> \o X \o sp \o EQU \o sp \o five,
       X \o sp \o EQU \o sp \o SECTION,
       EXPORT \o sp \o EQU \o sp \o five,
       X \o sp \o EQU \o sp \o <<"D","E","F">>,
       X \o sp \o EQU \o sp \o five \o sp \o <<";">> \o DEF_SP,
       X \o sp \o EQU \o <<"S">> \o sp \o five,
       X \o sp \o EQU \o sp,
       X \o sp \o EQU,
       five \o X \o sp \o EQU \o sp \o five,
       X \o <<":">> \o sp \o EQU \o sp \o five,
       <<"l","d">> \o sp \o <<"a",",">> \o sp \o X }

\* the lines joined by the terminator eol
RECURSIVE JoinWith(_, _)
JoinWith(lines, eol) ==
  IF Len(lines) = 1 THEN lines[1]
  ELSE lines[1] \o eol \o JoinWith(Tail(lines), eol)

\* contents of src/video.asm: 1..MaxLines lines, LF or CRLF terminated
SourceFiles ==
  UNION { { JoinWith(ls, eol) : ls \in [1..n -> LinePool], eol \in Eols }
          : n \in 1..MaxLines }

\* contents of src/video.asm the pipeline is run on
PipelineFiles ==
  LET sp == <<" ">>
      decl == <<"X">> \o sp \o EQU \o sp \o <<"5">>
      skipf == PULLDOWN_SKIPF \o sp \o EQU \o sp \o <<"5">>
  IN { NoFile,
       decl,
       skipf \o <<CR, LF>> \o decl,
       DEF_SP \o skipf \o <<LF>> \o decl }

\* where an OSError is raised by the file operations of one patch call
IOFaults == {"none", "read", "backup", "write"}

\* the keys of deps, in the order of the dict
Executables == <<"ffmpeg", "python3", "rgbasm", "rgblink", "rgbfix">>

\* the modules imported by check_dependencies, in the order of the imports
Libraries == <<"PIL", "soundfile">>

\* the executable build_rom runs
BuildTool == "make"

\* the set of the elements of a sequence
Range(seq) == {seq[i] : i \in 1..Len(seq)}

\* everything the environment may lack
Resolvable == Range(Executables) \cup Range(Libraries) \cup {BuildTool}

\* ------------------------------------------------------------------------
\* State
\* ------------------------------------------------------------------------
VARIABLES
  video_asm,      \* content of repo/src/video.asm, or NoFile
  backup,         \* content of repo/src/video.asm.bak, or NoFile
  os_linesep,     \* os.linesep of the platform
  patch_outcome,  \* how the last patch_rgbds_syntax call ended
  prev_asm,       \* video_asm before the last patch_rgbds_syntax call
  prev_bak,       \* backup before the last patch_rgbds_syntax call
  patch_runs,     \* number of patch_rgbds_syntax calls so far
  patched_once,   \* some earlier call returned True
  pc,             \* what main does next, or DONE / FAILED
  args,           \* the parsed command line: no_audio, skip_patch
  input_exists,   \* os.path.exists(args.input)
  absent,         \* executables and libraries the environment lacks
  makefile,       \* repo/Makefile exists
  video_gb,       \* repo/video.gb exists
  sound_wav,      \* repo/sound.wav: "absent", "stale", "partial", "fresh"
  frames_dir,     \* repo/frames: "absent", "stale", "empty", "frames"
  report,         \* dependencies listed as missing by check_dependencies
  checked,        \* dependencies check_dependencies has looked up
  stages,         \* the stages started so far, in order
  spawned,        \* number of times each external command was started
  running,        \* external commands started and not yet exited
  returncode,     \* result.returncode of each external command, -1: none
  audio_success,  \* the local of main
  make_cmd,       \* names of the parameters of the make invocation
  output_rom,     \* the output path has been written
  exit_code,      \* exit status of the process, -1 while it runs
  fail_cause,     \* the place that ended the run with a failure
  fps_multiplier, \* args.fps_multiplier, a rational number
  target_fps,     \* the local of main, NoRate before line 283
  fps             \* the local of extract_frames, NoRate before line 138

patchVars ==
  <<video_asm, backup, os_linesep, patch_outcome, prev_asm, prev_bak,
    patch_runs, patched_once>>

envVars == <<args, input_exists, absent, makefile, fps_multiplier>>

fsVars == <<video_gb, sound_wav, frames_dir, output_rom>>

probeVars == <<report, checked>>

procVars == <<spawned, running, returncode>>

exitVars == <<exit_code, fail_cause>>

fpsVars == <<target_fps, fps>>

mainVars ==
  <<pc, envVars, fsVars, probeVars, procVars, exitVars, stages,
    audio_success, make_cmd, fpsVars>>

vars == <<patchVars, mainVars>>

\* outcomes of patch_rgbds_syntax that end in an exception
PatchRaised == {"read_error", "backup_error", "write_error"}

\* ------------------------------------------------------------------------
\* patch_rgbds_syntax
\* ------------------------------------------------------------------------
\* BackupAfter without the test of backup.exists()
BackupAfter_Always(bak, asm) == asm

\* lines 44-47: the backup file after the copy step, asm being the source
BackupAfter(bak, asm) == IF bak = NoFile THEN asm ELSE bak

\* patch_rgbds_syntax without the test that the file exists: open() raises
patch_rgbds_syntax_NoExistsCheck(io) ==
  /\ prev_asm' = video_asm
  /\ prev_bak' = backup
  /\ patch_runs' = patch_runs + 1
  /\ UNCHANGED os_linesep
  /\ IF video_asm = NoFile \/ io = "read"
     THEN /\ patch_outcome' = "read_error"
          /\ UNCHANGED <<video_asm, backup>>
     ELSE LET content == DecodeText(video_asm)
          IN IF AlreadyPatched(content)
             THEN /\ patch_outcome' = "already_patched"
                  /\ UNCHANGED <<video_asm, backup>>
             ELSE IF backup = NoFile /\ io = "backup"
             THEN /\ patch_outcome' = "backup_error"
                  /\ UNCHANGED <<video_asm, backup>>
             ELSE /\ backup' = BackupAfter(backup, video_asm)
                  /\ IF io = "write"
                     THEN /\ patch_outcome' = "write_error"
                          /\ UNCHANGED video_asm
                     ELSE /\ patch_outcome' = "patched"
                          /\ video_asm' =
                               EncodeText(PatchText(content), os_linesep)
  /\ patched_once' = (patched_once \/ patch_outcome' \notin PatchRaised)

\* One call of patch_rgbds_syntax; io names the file operation that raises.
patch_rgbds_syntax(io) ==
  /\ prev_asm' = video_asm
  /\ prev_bak' = backup
  /\ patch_runs' = patch_runs + 1
  /\ UNCHANGED os_linesep
  /\ IF video_asm = NoFile
     THEN /\ patch_outcome' = "no_file"
          /\ UNCHANGED <<video_asm, backup>>
     ELSE IF io = "read"
     THEN /\ patch_outcome' = "read_error"
          /\ UNCHANGED <<video_asm, backup>>
     ELSE LET content == DecodeText(video_asm)
          IN IF AlreadyPatched(content)
             THEN /\ patch_outcome' = "already_patched"
                  /\ UNCHANGED <<video_asm, backup>>
             ELSE IF backup = NoFile /\ io = "backup"
             THEN /\ patch_outcome' = "backup_error"
                  /\ UNCHANGED <<video_asm, backup>>
             ELSE /\ backup' = BackupAfter(backup, video_asm)
                  /\ IF io = "write"
                     THEN /\ patch_outcome' = "write_error"
                          /\ UNCHANGED video_asm
                     ELSE /\ patch_outcome' = "patched"
                          /\ video_asm' =
                               EncodeText(PatchText(content), os_linesep)
  /\ patched_once' = (patched_once \/ patch_outcome' \notin PatchRaised)

\* ------------------------------------------------------------------------
\* check_dependencies
\* ------------------------------------------------------------------------
\* the subsequence of the elements of seq that belong to set
RECURSIVE Filter(_, _)
Filter(seq, set) ==
  IF seq = <<>> THEN <<>>
  ELSE (IF Head(seq) \in set THEN <<Head(seq)>> ELSE <<>>)
       \o Filter(Tail(seq), set)

\* check_dependencies with the 'return False' of the failure paths lost
check_dependencies_NoReturn(env) ==
  LET missing == Filter(Executables, env)
  IN [ok |-> TRUE,
      report |-> Range(missing) \cup (env \cap Range(Libraries)),
      checked |-> Range(Executables) \cup Range(Libraries)]

\* check_dependencies in an environment that lacks env: the verdict, the
\* items printed as missing and the items looked up
check_dependencies(env) ==
  LET missing == Filter(Executables, env)
  IN IF missing # <<>>
     THEN [ok |-> FALSE, report |-> Range(missing),
           checked |-> Range(Executables)]
     ELSE IF Libraries[1] \in env
     THEN [ok |-> FALSE, report |-> {Libraries[1]},
           checked |-> Range(Executables) \cup {Libraries[1]}]
     ELSE IF Libraries[2] \in env
     THEN [ok |-> FALSE, report |-> {Libraries[2]},
           checked |-> Range(Executables) \cup Range(Libraries)]
     ELSE [ok |-> TRUE, report |-> {},
           checked |-> Range(Executables) \cup Range(Libraries)]

\* ------------------------------------------------------------------------
\* main
\* ------------------------------------------------------------------------
\* the rational number n/d, standing for a float
Rat(n, d) == [num |-> n, den |-> d]

\* a = b as numbers (denominators are positive)
RatEq(a, b) == a.num * b.den = b.num * a.den

\* n / r for an integer n and a rational r # 0
RatDiv(n, r) == Rat(n * r.den, r.num)

\* n * r for an integer n and a rational r
RatMul(n, r) == Rat(n * r.num, r.den)

\* the value of a rate variable that has not been computed
NoRate == Rat(0, 0)

\* lines 138 and 283: the base frame rate
BaseFps == 30

\* line 264: default=1.0
DefaultMultiplier == Rat(1, 1)

\* the values of --fps-multiplier tried: 0, 1/3, 1/2, 2/3, 1, 3/2, 2, 3
Multipliers == {Rat(n, d) : n \in 0..MaxTerm, d \in 1..MaxTerm}

\* line 283: target_fps = 30 / args.fps_multiplier
TargetFps(multiplier) == RatDiv(BaseFps, multiplier)

\* line 138: fps = 30 / pulldown
Fps(pulldown) == RatDiv(BaseFps, pulldown)

\* the stages of the pipeline, in the order main runs them
StageOrder == <<"probe", "patch", "frames", "audio", "build", "copy">>

\* the external commands started with subprocess.run
Commands == {"ffmpeg_frames", "ffmpeg_audio", "make"}

\* the parameters every make invocation carries
BaseMakeCmd == {"CONFIG", "PULLDOWN", "FRAMEEXT"}

\* Fail with the exit status of a successful run
Fail_ExitZero(cause) ==
  /\ pc' = "FAILED"
  /\ exit_code' = 0
  /\ fail_cause' = cause

\* sys.exit(1), or an exception that ends the process, at the place cause
Fail(cause) ==
  /\ pc' = "FAILED"
  /\ exit_code' = 1
  /\ fail_cause' = cause

\* subprocess.run starts the command
Spawn(cmd) ==
  /\ spawned' = [spawned EXCEPT ![cmd] = @ + 1]
  /\ running' = running \cup {cmd}
  /\ UNCHANGED returncode

\* Exited with the child left running (Popen without wait)
Exited_NoWait(cmd, rc) ==
  /\ running' = running
  /\ returncode' = [returncode EXCEPT ![cmd] = rc]
  /\ UNCHANGED spawned

\* the command exits with status rc and subprocess.run returns
Exited(cmd, rc) ==
  /\ running' = running \ {cmd}
  /\ returncode' = [returncode EXCEPT ![cmd] = rc]
  /\ UNCHANGED spawned

\* Validate without the test of the input path
Validate_NoCheck ==
  /\ pc = "validate"
  /\ pc' = "check_dependencies"
  /\ target_fps' = IF fps_multiplier.num = 0 THEN target_fps
                   ELSE TargetFps(fps_multiplier)
  /\ UNCHANGED <<fps, exitVars, envVars, fsVars, probeVars, procVars, stages,
                 audio_success, make_cmd, patchVars>>

\* lines 273-283: the input file must exist; target_fps is computed for the
\* banner, and a multiplier of 0 raises ZeroDivisionError outside any try
Validate ==
  /\ pc = "validate"
  /\ IF ~input_exists
     THEN Fail("input") /\ UNCHANGED target_fps
     ELSE IF fps_multiplier.num = 0
     THEN Fail("zero_division") /\ UNCHANGED target_fps
     ELSE /\ pc' = "check_dependencies"
          /\ target_fps' = TargetFps(fps_multiplier)
          /\ UNCHANGED exitVars
  /\ UNCHANGED <<fps, envVars, fsVars, probeVars, procVars, stages,
                 audio_success, make_cmd, patchVars>>

\* lines 295-299: the dependency probe
CheckDependencies ==
  /\ pc = "check_dependencies"
  /\ stages' = Append(stages, "probe")
  /\ LET r == check_dependencies(absent)
     IN /\ report' = r.report
        /\ checked' = r.checked
        /\ IF ~r.ok
           THEN Fail("probe")
           ELSE pc' = "patch" /\ UNCHANGED exitVars
  /\ UNCHANGED <<fpsVars, envVars, fsVars, procVars, audio_success, make_cmd,
                 patchVars>>

\* lines 301-304: the syntax patch, outside the try block of main
SyntaxPatch ==
  /\ pc = "patch"
  /\ IF args.skip_patch
     THEN /\ pc' = "extract_frames"
          /\ UNCHANGED <<stages, exitVars, patchVars>>
     ELSE /\ stages' = Append(stages, "patch")
          /\ \E io \in IOFaults : patch_rgbds_syntax(io)
          /\ IF patch_outcome' \in PatchRaised
             THEN Fail("patch_exception")
             ELSE pc' = "extract_frames" /\ UNCHANGED exitVars
  /\ UNCHANGED <<fpsVars, envVars, fsVars, probeVars, procVars, audio_success,
                 make_cmd>>

\* lines 120-150: extract_frames resets the frames directory, starts ffmpeg
ExtractFramesStart ==
  /\ pc = "extract_frames"
  /\ stages' = Append(stages, "frames")
  /\ frames_dir' = "empty"
  /\ fps' = Fps(fps_multiplier)
  /\ Spawn("ffmpeg_frames")
  /\ pc' = "ffmpeg_frames"
  /\ UNCHANGED <<target_fps, envVars, video_gb, sound_wav, output_rom,
                 probeVars,
                 audio_success, make_cmd, exitVars, patchVars>>

\* lines 150-157 and 311-315: ffmpeg exits
ExtractFramesExit ==
  /\ pc = "ffmpeg_frames"
  /\ \E rc \in {0, 1} :
       /\ Exited("ffmpeg_frames", rc)
       /\ IF rc # 0
          THEN /\ Fail("frames")
               /\ UNCHANGED <<frames_dir, audio_success>>
          ELSE /\ frames_dir' = "frames"
               /\ audio_success' = FALSE
               /\ pc' = IF ~args.no_audio THEN "extract_audio"
                        ELSE "build_rom"
               /\ UNCHANGED exitVars
  /\ UNCHANGED <<fpsVars, envVars, video_gb, sound_wav, output_rom, probeVars,
                 stages, make_cmd, patchVars>>

\* lines 159-174: extract_audio starts ffmpeg
ExtractAudioStart ==
  /\ pc = "extract_audio"
  /\ stages' = Append(stages, "audio")
  /\ Spawn("ffmpeg_audio")
  /\ pc' = "ffmpeg_audio"
  /\ UNCHANGED <<fpsVars, envVars, fsVars, probeVars, audio_success, make_cmd,
                 exitVars, patchVars>>

\* lines 174-180 and 317-319: ffmpeg exits; a failure may leave sound.wav
\* as it was or half written
ExtractAudioExit ==
  /\ pc = "ffmpeg_audio"
  /\ \E rc \in {0, 1} :
       /\ Exited("ffmpeg_audio", rc)
       /\ audio_success' = (rc = 0)
       /\ IF rc = 0 THEN sound_wav' = "fresh"
          ELSE sound_wav' \in {sound_wav, "partial"}
  /\ pc' = "build_rom"
  /\ UNCHANGED <<fpsVars, envVars, video_gb, frames_dir, output_rom, probeVars,
                 stages, make_cmd, exitVars, patchVars>>

\* SoundFileGiven without the test of audio_success
SoundFileGiven_IgnoresResult == ~args.no_audio

\* line 328: a path is handed to build_rom only after a successful extraction
SoundFileGiven == ~args.no_audio /\ audio_success

\* MakeCmd with SOUND for any sound.wav that exists, handed over or not
MakeCmd_NoRequest(sound_given, sound_exists) ==
  BaseMakeCmd \cup (IF sound_exists THEN {"SOUND"} ELSE {})

\* lines 198-200: the make parameters for the given sound_path
MakeCmd(sound_given, sound_exists) ==
  BaseMakeCmd \cup (IF sound_given /\ sound_exists THEN {"SOUND"} ELSE {})

\* lines 182-208: build_rom checks the Makefile, builds make_cmd, starts make
BuildRomStart ==
  /\ pc = "build_rom"
  /\ stages' = Append(stages, "build")
  /\ IF ~makefile
     THEN /\ Fail("build")
          /\ UNCHANGED <<make_cmd, procVars>>
     ELSE /\ make_cmd' = MakeCmd(SoundFileGiven, sound_wav # "absent")
          /\ IF BuildTool \in absent
             THEN Fail("exception") /\ UNCHANGED procVars
             ELSE /\ Spawn("make")
                  /\ pc' = "make"
                  /\ UNCHANGED exitVars
  /\ UNCHANGED <<fpsVars, envVars, fsVars, probeVars, audio_success,
                 patchVars>>

\* BuildRomExit without the test that video.gb exists
BuildRomExit_NoExistsCheck ==
  /\ pc = "make"
  /\ \E rc \in {0, 1} :
       /\ Exited("make", rc)
       /\ IF rc # 0
          THEN Fail("build") /\ UNCHANGED video_gb
          ELSE /\ video_gb' \in {video_gb, TRUE}
               /\ pc' = "copy" /\ UNCHANGED exitVars
  /\ UNCHANGED <<fpsVars, envVars, sound_wav, frames_dir, output_rom,
                 probeVars,
                 stages, audio_success, make_cmd, patchVars>>

\* lines 210-221: make exits; a successful build may or may not leave video.gb
BuildRomExit ==
  /\ pc = "make"
  /\ \E rc \in {0, 1} :
       /\ Exited("make", rc)
       /\ IF rc # 0
          THEN Fail("build") /\ UNCHANGED video_gb
          ELSE /\ video_gb' \in {video_gb, TRUE}
               /\ IF ~video_gb'
                  THEN Fail("build")
                  ELSE pc' = "copy" /\ UNCHANGED exitVars
  /\ UNCHANGED <<fpsVars, envVars, sound_wav, frames_dir, output_rom,
                 probeVars,
                 stages, audio_success, make_cmd, patchVars>>

\* lines 223-228 and 332-343: the image is copied to the output path
CopyArtifact ==
  /\ pc = "copy"
  /\ stages' = Append(stages, "copy")
  /\ \E ok \in BOOLEAN :
       IF ok
       THEN /\ output_rom' = TRUE
            /\ pc' = "DONE"
            /\ exit_code' = 0
            /\ UNCHANGED fail_cause
       ELSE Fail("exception") /\ UNCHANGED output_rom
  /\ UNCHANGED <<fpsVars, envVars, video_gb, sound_wav, frames_dir, probeVars,
                 procVars, audio_success, make_cmd, patchVars>>

\* the run of main() before any step
InitMain ==
  /\ pc = "validate"
  /\ args \in [no_audio : BOOLEAN, skip_patch : BOOLEAN]
  /\ input_exists \in BOOLEAN
  /\ absent \in SUBSET Resolvable
  /\ makefile \in BOOLEAN
  /\ video_gb \in BOOLEAN
  /\ sound_wav \in {"absent", "stale"}
  /\ frames_dir \in {"absent", "stale"}
  /\ report = {}
  /\ checked = {}
  /\ stages = <<>>
  /\ spawned = [c \in Commands |-> 0]
  /\ running = {}
  /\ returncode = [c \in Commands |-> -1]
  /\ audio_success = FALSE
  /\ make_cmd = {}
  /\ output_rom = FALSE
  /\ exit_code = -1
  /\ fail_cause = "none"
  /\ target_fps = NoRate
  /\ fps = NoRate

\* the patcher before any call, on the source file asm
InitPatcher(asm) ==
  /\ video_asm = asm
  /\ backup = NoFile
  /\ os_linesep \in Eols
  /\ patch_outcome = "not_called"
  /\ prev_asm = video_asm
  /\ prev_bak = backup
  /\ patch_runs = 0
  /\ patched_once = FALSE

\* a run with the default frame rate
Init ==
  /\ \E asm \in PipelineFiles : InitPatcher(asm)
  /\ InitMain
  /\ fps_multiplier = DefaultMultiplier

Next ==
  \/ Validate
  \/ CheckDependencies
  \/ SyntaxPatch
  \/ ExtractFramesStart
  \/ ExtractFramesExit
  \/ ExtractAudioStart
  \/ ExtractAudioExit
  \/ BuildRomStart
  \/ BuildRomExit
  \/ CopyArtifact

Spec == Init /\ [][Next]_vars

\* ------------------------------------------------------------------------
\* A run of main that the user may interrupt
\* ------------------------------------------------------------------------
\* lines 309-343: the positions of main inside the try block
InTry ==
  {"extract_frames", "ffmpeg_frames", "extract_audio", "ffmpeg_audio",
   "build_rom", "make", "copy"}

\* KeyboardInterrupt is raised in main at its current position.  Inside the
\* try block line 345 catches it and line 347 exits with status 1 (a running
\* child is killed by subprocess.run, an audio file may be left half
\* written).  Before the try block nothing catches it: the interpreter
\* prints the traceback and ends with status 1, or, from Python 3.8 on, by
\* SIGINT, which the shell reports as status 130.
Interrupt ==
  /\ pc \notin {"DONE", "FAILED", "library"}
  /\ IF pc \in InTry
     THEN Fail("interrupt")
     ELSE /\ pc' = "FAILED"
          /\ exit_code' \in {1, 130}
          /\ fail_cause' = "uncaught_interrupt"
  /\ running' = {}
  /\ IF pc = "ffmpeg_audio"
     THEN sound_wav' \in {sound_wav, "partial"}
     ELSE UNCHANGED sound_wav
  /\ UNCHANGED <<fpsVars, envVars, video_gb, frames_dir, output_rom, probeVars,
                 spawned, returncode, stages, audio_success, make_cmd,
                 patchVars>>

NextInterrupt ==
  \/ Next
  \/ Interrupt

SpecInterrupt == Init /\ [][NextInterrupt]_vars

\* ------------------------------------------------------------------------
\* Runs of main over the values of --fps-multiplier
\* ------------------------------------------------------------------------
\* a run in a complete environment, with any multiplier
InitFps ==
  /\ InitPatcher(NoFile)
  /\ InitMain
  /\ absent = {}
  /\ fps_multiplier \in Multipliers

SpecFps == InitFps /\ [][Next]_vars

\* ------------------------------------------------------------------------
\* Repeated patching of one repository
\* ------------------------------------------------------------------------
\* no run of main: the patcher is called directly, as a library
InitPatch ==
  /\ \E asm \in SourceFiles \cup {NoFile} : InitPatcher(asm)
  /\ pc = "library"
  /\ args = [no_audio |-> FALSE, skip_patch |-> FALSE]
  /\ input_exists = TRUE
  /\ absent = {}
  /\ makefile = TRUE
  /\ video_gb = FALSE
  /\ sound_wav = "absent"
  /\ frames_dir = "absent"
  /\ report = {}
  /\ checked = {}
  /\ stages = <<>>
  /\ spawned = [c \in Commands |-> 0]
  /\ running = {}
  /\ returncode = [c \in Commands |-> -1]
  /\ audio_success = FALSE
  /\ make_cmd = {}
  /\ output_rom = FALSE
  /\ exit_code = -1
  /\ fail_cause = "none"
  /\ fps_multiplier = DefaultMultiplier
  /\ target_fps = NoRate
  /\ fps = NoRate

PatchCall ==
  /\ patch_runs < MaxPatchRuns
  /\ \E io \in IOFaults : patch_rgbds_syntax(io)
  /\ UNCHANGED mainVars

NextPatch == PatchCall

SpecPatch == InitPatch /\ [][NextPatch]_vars

\* ------------------------------------------------------------------------
\* Properties of patch_rgbds_syntax (checked under SpecPatch)
\* ------------------------------------------------------------------------
\* the lines of a stored file, as the text layer of Python delivers them
Lines(file) == Split(DecodeText(file))

\* line is <whitespace><identifier><whitespace>EQU<whitespace><value>, cut
\* after i characters of leading whitespace and j characters of identifier
DeclShape(line, i, j) ==
  LET ident == SubSeq(line, i + 1, i + j)
      rest == From(line, i + j + 1)
  IN /\ \A k \in 1..i : line[k] \in Whitespace
     /\ j >= 1
     /\ ident[1] \in IdentStart
     /\ \A k \in 1..j : ident[k] \in IdentChar
     /\ \E w \in 1..Len(rest) :
          /\ \A k \in 1..w : rest[k] \in Whitespace
          /\ Len(rest) >= w + 4
          /\ SubSeq(rest, w + 1, w + 3) = EQU
          /\ rest[w + 4] \in Whitespace

\* line is an unqualified constant declaration
IsDecl(line) ==
  \E i \in 0..Len(line) : \E j \in 1..(Len(line) - i) : DeclShape(line, i, j)

\* the qualifier keyword
Qualifier == <<"D","E","F">>

\* C5: once a call of patch_rgbds_syntax has returned, a further call
\* changes no byte of the source file, whatever the file holds.
C5_Idempotent == [][patched_once => video_asm' = video_asm]_vars

\* a second call has returned on a file the first call had rewritten, and
\* the file has no PULLDOWN_SKIPF declaration
C5_Witness ==
  /\ patch_runs >= 2
  /\ patch_outcome = "patched"
  /\ prev_bak # NoFile
  /\ backup # video_asm
  /\ prev_asm = video_asm
  /\ ~Contains(video_asm, PULLDOWN_SKIPF)

\* C6: when the file is not detected as patched and the call writes it,
\* every line that is no comment, not blank, holds neither the qualifier nor
\* INCLUDE, SECTION or EXPORT and has the declaration shape becomes
\* <leading whitespace>DEF <identifier><rest>.
C6_DeclarationQualified ==
  patch_outcome = "patched" =>
    LET old == Lines(prev_asm)
        new == Lines(video_asm)
    IN /\ Len(new) = Len(old)
       /\ \A n \in 1..Len(old) :
            LET line == old[n]
            IN ( /\ ~StartsWith(Strip(line), <<";">>)
                 /\ Strip(line) # <<>>
                 /\ ~Contains(line, Qualifier)
                 /\ ~Contains(line, INCLUDE)
                 /\ ~Contains(line, SECTION)
                 /\ ~Contains(line, EXPORT) )
               => \A i \in 0..Len(line) : \A j \in 1..(Len(line) - i) :
                    DeclShape(line, i, j) =>
                      new[n] = SubSeq(line, 1, i) \o DEF_SP
                               \o From(line, i + 1)

\* '  MYCONST EQU 5' has been rewritten to '  DEF MYCONST EQU 5'
C6_Witness ==
  /\ patch_outcome = "patched"
  /\ LET myconst == <<"M","Y","C","O","N","S","T">>
         tail == <<" ">> \o EQU \o <<" ", "5">>
     IN \E n \in 1..Len(Lines(prev_asm)) :
          /\ Lines(prev_asm)[n] = <<" ", " ">> \o myconst \o tail
          /\ Lines(video_asm)[n] = <<" ", " ">> \o DEF_SP \o myconst \o tail

\* the lines a call must leave alone, has_qualifier telling whether the line
\* counts as holding the qualifier already
Untouched(has_qualifier(_)) ==
  (patch_runs > 0 /\ prev_asm # NoFile) =>
    LET old == Lines(prev_asm)
        new == Lines(video_asm)
    IN /\ Len(new) = Len(old)
       /\ \A n \in 1..Len(old) :
            ( \/ StartsWith(Strip(old[n]), <<";">>)
              \/ Contains(old[n], INCLUDE)
              \/ Contains(old[n], SECTION)
              \/ Contains(old[n], EXPORT)
              \/ has_qualifier(old[n])
              \/ ~IsDecl(old[n]) )
            => new[n] = old[n]

HasQualifiedDecl(text) ==
  \E p \in 1..Len(text) :
    LET t == From(text, p)
        n == Span(From(t, 5), IdentChar)
        r == From(t, 5 + n)
        w == Span(r, Whitespace \ {LF})
    IN /\ StartsWith(t, DEF_SP)
       /\ n >= 1
       /\ t[5] \in IdentStart
       /\ w >= 1
       /\ StartsWith(From(r, w + 1), EQU)

\* a call that found marked (of the file as read) left file and backup alone
NoChangeWhen(marked(_)) ==
  (patch_runs > 0 /\ prev_asm # NoFile /\ marked(DecodeText(prev_asm))) =>
    /\ video_asm = prev_asm
    /\ backup = prev_bak
    /\ patch_outcome \in {"already_patched", "read_error"}

C9_BackupOnce ==
  [][ /\ backup # NoFile => backup' = backup
      /\ video_asm' # video_asm => backup' # NoFile ]_vars

\* a later call rewrote a source that differs from the existing backup
C9_Witness ==
  /\ patch_runs >= 2
  /\ patch_outcome = "patched"
  /\ prev_bak # NoFile
  /\ prev_asm # prev_bak
  /\ backup = prev_bak

\* ------------------------------------------------------------------------
\* Properties of main (checked under Spec)
\* ------------------------------------------------------------------------
\* C1: the stages start in the order probe, patch, frames, audio, build,
\* copy, each at most once; each external command is started at most once;
\* a stage or a command starts only when no external process is running.
C1_StageOrder ==
  [][ LET Pos(st) == CHOOSE k \in 1..Len(StageOrder) : StageOrder[k] = st
      IN /\ \A i, j \in 1..Len(stages') :
              i < j => Pos(stages'[i]) < Pos(stages'[j])
         /\ \A c \in Commands : spawned'[c] <= 1
         /\ stages' # stages => running = {}
         /\ spawned' # spawned => running = {} ]_vars

\* a run went through all six stages and started each command once
C1_Witness ==
  /\ pc = "DONE"
  /\ stages = StageOrder
  /\ \A c \in Commands : spawned[c] = 1 /\ returncode[c] = 0

\* C2: after a failed probe the run is FAILED and nothing else was done (no
\* patch, no backup, frames directory as it was, no process started); after
\* a non-zero exit of the frame transcoder the run is FAILED and neither
\* audio extraction nor the build was started.
C2_FatalStops ==
  /\ ("probe" \in Range(stages) /\ report # {}) =>
       /\ pc = "FAILED"
       /\ stages = <<"probe">>
       /\ patch_runs = 0
       /\ video_asm = prev_asm
       /\ backup = NoFile
       /\ frames_dir \in {"absent", "stale"}
       /\ \A c \in Commands : spawned[c] = 0
  /\ returncode["ffmpeg_frames"] > 0 =>
       /\ pc = "FAILED"
       /\ "audio" \notin Range(stages)
       /\ "build" \notin Range(stages)
       /\ spawned["ffmpeg_audio"] = 0
       /\ spawned["make"] = 0

\* the probe failed in a run that would have patched a patchable source
C2_Witness ==
  /\ fail_cause = "probe"
  /\ ~args.skip_patch
  /\ video_asm # NoFile
  /\ ~AlreadyPatched(DecodeText(video_asm))
  /\ frames_dir = "stale"

\* C3: after a failed audio extraction the run goes on to the build, a make
\* invocation carries no SOUND parameter, and the run fails only for a
\* reason of the build or the copy.
C3_AudioDegrades ==
  returncode["ffmpeg_audio"] > 0 =>
    /\ pc = "build_rom" \/ "build" \in Range(stages)
    /\ "SOUND" \notin make_cmd
    /\ pc = "FAILED" => fail_cause \in {"build", "exception"}

\* a run whose audio extraction failed is DONE with exit code 0, built
\* without SOUND although a sound.wav lies in the repository
C3_Witness ==
  /\ pc = "DONE"
  /\ exit_code = 0
  /\ returncode["ffmpeg_audio"] > 0
  /\ make_cmd = BaseMakeCmd
  /\ sound_wav # "absent"

\* C4 as stated: a run that has passed the probe and left the patch stage
\* starts frame extraction and is never FAILED because of the patch.
C4_Original ==
  ("probe" \in Range(stages) /\ report = {} /\ pc # "patch") =>
    /\ pc = "extract_frames" \/ "frames" \in Range(stages)
    /\ fail_cause # "patch_exception"

\* C10 as stated: the probe looks up every required executable and library,
\* and the report of a failed probe lists every one that is missing.
C10_Original ==
  "probe" \in Range(stages) =>
    LET required == Range(Executables) \cup Range(Libraries)
    IN /\ checked = required
       /\ report # {} => report = absent \cap required

\* C11 as stated: the probe passes only if nothing that is required is
\* missing, the build tool included; otherwise the run is FAILED.
C11_Original ==
  ("probe" \in Range(stages) /\ absent # {}) =>
    /\ report # {}
    /\ pc = "FAILED"

\* C12: the exit status is 0 exactly when the run is DONE, and a DONE run
\* had its input, passed the probe, extracted the frames, built video.gb and
\* wrote the output path; a run that lacks its input, fails the probe, the
\* frame extraction or the build, or raises an error, exits with status 1.
C12_ExitCode ==
  /\ exit_code = 0 <=> pc = "DONE"
  /\ exit_code = 1 <=> pc = "FAILED"
  /\ pc = "DONE" =>
       /\ input_exists
       /\ "probe" \in Range(stages) /\ report = {}
       /\ returncode["ffmpeg_frames"] = 0
       /\ returncode["make"] = 0
       /\ video_gb
       /\ output_rom
  /\ ( \/ ~input_exists /\ pc # "validate"
       \/ report # {}
       \/ patch_outcome \in PatchRaised
       \/ returncode["ffmpeg_frames"] > 0
       \/ returncode["make"] > 0
       \/ "build" \in Range(stages) /\ ~makefile
       \/ fail_cause # "none" ) => exit_code = 1

\* a run ended with status 0 and the output written, and its sound.wav was
\* built in
C12_Witness ==
  /\ exit_code = 0
  /\ output_rom
  /\ "SOUND" \in make_cmd
  /\ fail_cause = "none"

\* C13: a run whose input path does not exist ends with a non-zero exit
\* status, with no stage started, no external process spawned, the assembly
\* source and its backup as they were and the frames directory not reset.
C13_MissingInput ==
  (~input_exists /\ pc # "validate") =>
    /\ pc = "FAILED"
    /\ exit_code > 0
    /\ stages = <<>>
    /\ checked = {}
    /\ \A c \in Commands : spawned[c] = 0
    /\ running = {}
    /\ patch_runs = 0
    /\ video_asm = prev_asm
    /\ backup = NoFile
    /\ frames_dir \in {"absent", "stale"}
    /\ sound_wav \in {"absent", "stale"}
    /\ ~output_rom

\* a run without its input has ended, in a repository whose source would
\* have been patched and whose frames directory would have been reset
C13_Witness ==
  /\ ~input_exists
  /\ fail_cause = "input"
  /\ absent = {}
  /\ ~args.skip_patch
  /\ video_asm # NoFile
  /\ ~AlreadyPatched(DecodeText(video_asm))
  /\ frames_dir = "stale"

\* C14: when the build stage finds no Makefile, make is never started; when
\* make exits non-zero, or exits 0 and video.gb is absent afterwards, the
\* build fails; in each of the three cases the output path is not written
\* and the run is FAILED with exit status 1.
C14_BuildCritical ==
  /\ ("build" \in Range(stages) /\ ~makefile) =>
       /\ spawned["make"] = 0
       /\ make_cmd = {}
       /\ pc = "FAILED" /\ exit_code = 1 /\ ~output_rom
  /\ returncode["make"] > 0 =>
       pc = "FAILED" /\ exit_code = 1 /\ ~output_rom
  /\ (returncode["make"] = 0 /\ ~video_gb) =>
       pc = "FAILED" /\ exit_code = 1 /\ ~output_rom
  /\ output_rom => returncode["make"] = 0 /\ video_gb /\ makefile

\* make reported success but left no video.gb, and the run failed
C14_Witness ==
  /\ returncode["make"] = 0
  /\ ~video_gb
  /\ fail_cause = "build"
  /\ ~output_rom

\* C15 as stated: a run that fails for a missing Makefile, or a missing
\* input, has not patched the assembly source, not reset the frames
\* directory and started neither transcoder.
C15_Original ==
  ( \/ "build" \in Range(stages) /\ ~makefile
    \/ ~input_exists /\ pc # "validate" ) =>
    /\ pc = "FAILED"
    /\ patch_runs = 0
    /\ video_asm = prev_asm
    /\ backup = NoFile
    /\ frames_dir \in {"absent", "stale"}
    /\ spawned["ffmpeg_frames"] = 0
    /\ spawned["ffmpeg_audio"] = 0

\* C16: the make invocation carries SOUND only if audio was not disabled, a
\* path was handed to build_rom (the extraction succeeded) and sound.wav
\* exists when make is started; with --no-audio the audio transcoder is
\* never started and SOUND is never passed, whatever lies in the repository.
C16_SoundOnlyIfRequested ==
  /\ [][ make_cmd' # make_cmd =>
           ("SOUND" \in make_cmd' =>
              /\ ~args.no_audio
              /\ audio_success
              /\ sound_wav # "absent") ]_vars
  /\ [](args.no_audio =>
          /\ spawned["ffmpeg_audio"] = 0
          /\ "audio" \notin Range(stages)
          /\ "SOUND" \notin make_cmd)

\* a run with --no-audio was built without SOUND and is DONE, in a
\* repository that holds a sound.wav of an earlier run
C16_Witness ==
  /\ args.no_audio
  /\ sound_wav = "stale"
  /\ make_cmd = BaseMakeCmd
  /\ spawned["make"] = 1
  /\ pc = "DONE"

\* C17 as stated: after a call that returned on an existing file, every line
\* that was an unqualified constant declaration before the call is the same
\* line with the qualifier put before its identifier, and no line starts
\* with the qualifier twice.
C17_Original ==
  (patch_outcome \in {"patched", "already_patched"}) =>
    LET old == Lines(prev_asm)
        new == Lines(video_asm)
    IN /\ Len(new) = Len(old)
       /\ \A n \in 1..Len(old) :
            /\ IsDecl(old[n]) =>
                 \E i \in 0..Len(old[n]) : \E j \in 1..(Len(old[n]) - i) :
                   /\ DeclShape(old[n], i, j)
                   /\ new[n] = SubSeq(old[n], 1, i) \o DEF_SP
                               \o From(old[n], i + 1)
            /\ ~StartsWith(Strip(new[n]), DEF_SP \o DEF_SP)

\* C18: a call of patch_rgbds_syntax that finds no source file returns
\* success (raises nothing), creates neither the source file nor a backup,
\* and the run goes on to frame extraction.
C18_MissingSourceNoOp ==
  /\ [][ (patch_runs' # patch_runs /\ video_asm = NoFile) =>
           /\ patch_outcome' = "no_file"
           /\ video_asm' = NoFile
           /\ backup' = backup
           /\ pc = "patch" => pc' = "extract_frames" ]_vars
  /\ [](patch_outcome = "no_file" =>
          /\ fail_cause # "patch_exception"
          /\ pc = "extract_frames" \/ "frames" \in Range(stages))

\* a run in a repository without src/video.asm has extracted its frames
C18_Witness ==
  /\ patch_outcome = "no_file"
  /\ video_asm = NoFile
  /\ backup = NoFile
  /\ frames_dir = "frames"

\* ------------------------------------------------------------------------
\* Properties of an interrupted run (checked under SpecInterrupt)
\* ------------------------------------------------------------------------
\* C19 as stated: when the interrupt arrives once the probe has started,
\* in the probe, the patch, a transcoder run or the build, main catches it
\* and exits with status 1, and the interrupted run starts no further stage
\* and no further command.
C19_Original ==
  /\ []( ( /\ fail_cause \in {"interrupt", "uncaught_interrupt"}
           /\ "probe" \in Range(stages) ) =>
          ( /\ fail_cause = "interrupt"
            /\ exit_code = 1 ) )
  /\ [][ (fail_cause \in {"interrupt", "uncaught_interrupt"}) =>
           (stages' = stages /\ spawned' = spawned) ]_vars

\* ------------------------------------------------------------------------
\* Properties of the frame rate (checked under SpecFps)
\* ------------------------------------------------------------------------
\* C20 as stated: the frame rate handed to the frame transcoder is 30 times
\* the multiplier, and the rate shown in the banner is the same number.
C20_Original ==
  /\ "frames" \in Range(stages) =>
       RatEq(fps, RatMul(BaseFps, fps_multiplier))
  /\ target_fps # NoRate =>
       RatEq(target_fps, RatMul(BaseFps, fps_multiplier))

====
